---- MODULE Spec2Model ----
(***************************************************************************)
(* The entity store of the coding-assistant backend (users, projects,      *)
(* conversations, messages, code snippets) and the CRUD handlers that act   *)
(* on it.  The store follows src/server/src/db/schema.ts (columns, serial   *)
(* keys, defaults, the unique index on users.email, the foreign keys and    *)
(* their ON DELETE actions); every handler is translated from its file      *)
(* under src/server/src/handlers (or the unnamed part that holds it).       *)
(***************************************************************************)
EXTENDS Integers, FiniteSets, Sequences, TLC

\* ------------------------------------------------------------- bounds
MaxUsers == 2
MaxProjects == 2
MaxConversations == 2
MaxMessages == 1
MaxSnippets == 1
MaxTime == 1
MaxUpdates == 1
MaxListed == 2
MaxClients == 3
MaxRacers == 3

\* ------------------------------------------------- values and inputs
\* JavaScript's undefined (a field left out of the input) and null, for text
\* fields and for numeric fields.
UNDEF == "undefined"
NULL == "null"
UndefId == 0 - 2
NullId == 0 - 1

\* `x || null` and `if (x)`: undefined, null, "" and 0 are falsy.
FalsyText(x) == x \in {UNDEF, NULL, ""}
FalsyId(x) == x \in {UndefId, NullId, 0}
OrNull(x) == IF FalsyText(x) THEN NULL ELSE x
OrNullId(x) == IF FalsyId(x) THEN NullId ELSE x

Emails == {"e1", "e2"}
Providers == {"google", "email"}
ProviderIds == {"p1"}
Texts == {"a", "b"}
Languages == {"javascript", "python"}
AiModels == {"claude-sonnet", "gpt-4"}
Roles == {"user", "assistant"}

\* z.number(): any number may be sent as an id, also one (0) that is never assigned.
IdInputs(max) == 0 .. max

\* ------------------------------------------------------------- state
VARIABLES
    db,        \* the five tables and the serial sequences
    now,       \* the clock read by defaultNow() and by new Date()
    last,      \* the last call: operation, input, outcome
    updates,   \* how many update calls have changed the store
    deleted,   \* the inputs for which deleteProject has returned true
    calls      \* the requests in flight, one per client

vars == <<db, now, last, updates, deleted, calls>>

Rows(t) == {t[i] : i \in DOMAIN t}

EmptyTable == [i \in {} |-> 0]

EmptyDb ==
    [users |-> EmptyTable, projects |-> EmptyTable, conversations |-> EmptyTable,
     messages |-> EmptyTable, code_snippets |-> EmptyTable,
     seq |-> [users |-> 1, projects |-> 1, conversations |-> 1,
              messages |-> 1, code_snippets |-> 1]]

\* A table with one more row, keyed by the row's id.
WithRow(t, row) == [i \in DOMAIN t \cup {row.id} |-> IF i = row.id THEN row ELSE t[i]]

\* A table without the rows whose ids are in ids.
Without(t, ids) == [i \in DOMAIN t \ ids |-> t[i]]

\* ------------------------------------------------- store statements
\* select ... where id = ?
SelectById(t, id) == IF id \in DOMAIN t THEN {t[id]} ELSE {}

\* A sequence that counts from 0.
NextVal_FromZero(S, table) == S.seq[table] - 1

\* serial('id'): nextval of the table's sequence.
NextVal(S, table) == S.seq[table]
Advance(S, table) == [S EXCEPT !.seq[table] = @ + 1]

\* The reference from code_snippets to messages declared ON DELETE CASCADE.
ClearMessageRefs_Cascade(snips, mids) ==
    [i \in {j \in DOMAIN snips : snips[j].message_id \notin mids} |-> snips[i]]

\* ON DELETE SET NULL of code_snippets.message_id.
ClearMessageRefs(snips, mids) ==
    [i \in DOMAIN snips |->
        IF snips[i].message_id \in mids
        THEN [snips[i] EXCEPT !.message_id = NullId] ELSE snips[i]]

\* delete from messages where id in mids, with its referential action.
DeleteMessages(S, mids) ==
    [S EXCEPT !.messages = Without(@, mids),
              !.code_snippets = ClearMessageRefs(@, mids)]

\* delete from conversations where id in cids: messages and code snippets of
\* those conversations go with them (ON DELETE CASCADE).
DeleteConversations(S, cids) ==
    LET mids == {m \in DOMAIN S.messages : S.messages[m].conversation_id \in cids}
        sids == {s \in DOMAIN S.code_snippets :
                    S.code_snippets[s].conversation_id \in cids}
        S1 == DeleteMessages(S, mids)
    IN [S1 EXCEPT !.code_snippets = Without(@, sids),
                  !.conversations = Without(@, cids)]

\* The delete of projects with no referential action.
DeleteProjects_NoCascade(S, pids) == [S EXCEPT !.projects = Without(@, pids)]

\* delete from projects where id in pids: conversations cascade.
DeleteProjects(S, pids) ==
    LET cids == {c \in DOMAIN S.conversations :
                    S.conversations[c].project_id \in pids}
        S1 == DeleteConversations(S, cids)
    IN [S1 EXCEPT !.projects = Without(@, pids)]

\* ------------------------------------------------------------ results
\* What a handler leaves behind: the store, whether it returned or threw, the
\* error thrown (message and the ids it names) and the value returned.
NoErr == [msg |-> "", id |-> 0, id2 |-> 0]
Err(msg, id, id2) == [msg |-> msg, id |-> id, id2 |-> id2]
\* a call that returns nothing: it threw, or there was no call
Void == [void |-> TRUE]

\* a boolean handed back by a delete handler
Returned(b) == [value |-> b]

Ok(S, out) == [db |-> S, ok |-> TRUE, err |-> NoErr, out |-> out]
Fail(S, err) == [db |-> S, ok |-> FALSE, err |-> err, out |-> Void]

\* ----------------------------------------------------------- handlers
\* Each handler maps the store S, its input and the clock reading t to the
\* store it leaves and what it returns or throws.

\* The insert into users of a table without the unique index on email.
InsertUser_NoUnique(S, vals, t) ==
    LET row == [id |-> NextVal(S, "users"), email |-> vals.email, name |-> vals.name,
                avatar_url |-> vals.avatar_url, auth_provider |-> vals.auth_provider,
                auth_provider_id |-> vals.auth_provider_id,
                preferred_coding_language |-> vals.preferred_coding_language,
                preferred_ai_model |-> vals.preferred_ai_model,
                created_at |-> t, updated_at |-> t]
    IN Ok([Advance(S, "users") EXCEPT !.users = WithRow(@, row)], row)

\* insert into users ... returning: serial id, both timestamps defaultNow(),
\* the unique index on email.  The sequence advances also when the insert
\* is rejected.
InsertUser(S, vals, t) ==
    LET row == [id |-> NextVal(S, "users"), email |-> vals.email, name |-> vals.name,
                avatar_url |-> vals.avatar_url, auth_provider |-> vals.auth_provider,
                auth_provider_id |-> vals.auth_provider_id,
                preferred_coding_language |-> vals.preferred_coding_language,
                preferred_ai_model |-> vals.preferred_ai_model,
                created_at |-> t, updated_at |-> t]
        S1 == Advance(S, "users")
    IN IF \E u \in Rows(S.users) : u.email = vals.email
       THEN Fail(S1, Err("duplicate key value violates unique constraint", 0, 0))
       ELSE Ok([S1 EXCEPT !.users = WithRow(@, row)], row)

createUser(S, in, t) ==
    InsertUser(S, [email |-> in.email, name |-> in.name,
                   avatar_url |-> OrNull(in.avatar_url),
                   auth_provider |-> in.auth_provider,
                   auth_provider_id |-> in.auth_provider_id,
                   preferred_coding_language |-> in.preferred_coding_language,
                   preferred_ai_model |-> in.preferred_ai_model], t)

\* `return null` of a lookup that found no row
NullResult == [null |-> TRUE]

\* select from users where id = ? limit 1
getUserById(S, userId) ==
    LET results == SelectById(S.users, userId)
    IN IF results = {} THEN Ok(S, NullResult)
       ELSE Ok(S, CHOOSE row \in results : TRUE)

\* The lookup by auth_provider_id alone.
SelectByAuth_IdOnly(S, in) ==
    {u \in Rows(S.users) : u.auth_provider_id = in.auth_provider_id}

\* select from users where auth_provider = ? and auth_provider_id = ?
SelectByAuth(S, in) ==
    {u \in Rows(S.users) : /\ u.auth_provider = in.auth_provider
                           /\ u.auth_provider_id = in.auth_provider_id}

\* getUserByAuth: the statement is limit 1 without an order, so any one of the
\* matching rows may be the one returned; the set of possible results.
getUserByAuth(S, in) ==
    IF SelectByAuth(S, in) = {} THEN {Ok(S, NullResult)}
    ELSE {Ok(S, row) : row \in SelectByAuth(S, in)}

\* What a list handler returns: the rows of the statement, in its order.
Listed(s) == [rows |-> s]

\* The orders in which a set of rows can come back.
Perms(rows) ==
    {s \in [1 .. Cardinality(rows) -> rows] :
        \A i, j \in 1 .. Cardinality(rows) : i # j => s[i] # s[j]}

\* The order of the rows without an order by clause: any.
OrderBy_Unordered(rows, key, descending) == Perms(rows)

\* order by key asc / desc: rows with equal keys come in any order.
OrderBy(rows, key, descending) ==
    {s \in Perms(rows) :
        \A i \in 1 .. Len(s) - 1 :
            IF descending THEN s[i][key] >= s[i + 1][key]
                          ELSE s[i][key] <= s[i + 1][key]}

\* getUserProjects without its where clause.
getUserProjects_All(S, in) ==
    {Ok(S, Listed(s)) : s \in OrderBy(Rows(S.projects), "updated_at", TRUE)}

\* select from projects where user_id = ? order by updated_at desc
getUserProjects(S, in) ==
    {Ok(S, Listed(s)) :
        s \in OrderBy({p \in Rows(S.projects) : p.user_id = in.user_id},
                      "updated_at", TRUE)}

\* select from conversations where project_id = ? order by updated_at desc
getProjectConversations(S, in) ==
    {Ok(S, Listed(s)) :
        s \in OrderBy({c \in Rows(S.conversations) : c.project_id = in.project_id},
                      "updated_at", TRUE)}

\* select from messages where conversation_id = ? order by created_at asc
getConversationMessages(S, in) ==
    {Ok(S, Listed(s)) :
        s \in OrderBy({x \in Rows(S.messages) : x.conversation_id = in.conversation_id},
                      "created_at", FALSE)}

\* select from code_snippets where conversation_id = ? order by created_at desc
getConversationCodeSnippets(S, in) ==
    {Ok(S, Listed(s)) :
        s \in OrderBy({x \in Rows(S.code_snippets) :
                          x.conversation_id = in.conversation_id},
                      "created_at", TRUE)}

\* insert into projects ... returning, under projects_user_id_fk.
InsertProject(S, vals, t) ==
    LET row == [id |-> NextVal(S, "projects"), user_id |-> vals.user_id,
                name |-> vals.name, description |-> vals.description,
                coding_language |-> vals.coding_language,
                created_at |-> t, updated_at |-> t]
        S1 == Advance(S, "projects")
    IN IF vals.user_id \notin DOMAIN S.users
       THEN Fail(S1, Err("violates foreign key constraint", vals.user_id, 0))
       ELSE Ok([S1 EXCEPT !.projects = WithRow(@, row)], row)

createProject(S, in, t) ==
    IF SelectById(S.users, in.user_id) = {}
    THEN Fail(S, Err("User with ID does not exist", in.user_id, 0))
    ELSE InsertProject(S, [user_id |-> in.user_id, name |-> in.name,
                           description |-> OrNull(in.description),
                           coding_language |-> in.coding_language], t)

\* insert into conversations ... returning, under both of its foreign keys.
InsertConversation(S, vals, t) ==
    LET row == [id |-> NextVal(S, "conversations"), project_id |-> vals.project_id,
                user_id |-> vals.user_id, title |-> vals.title,
                ai_model |-> vals.ai_model, created_at |-> t, updated_at |-> t]
        S1 == Advance(S, "conversations")
    IN IF vals.project_id \notin DOMAIN S.projects \/ vals.user_id \notin DOMAIN S.users
       THEN Fail(S1, Err("violates foreign key constraint", vals.project_id, vals.user_id))
       ELSE Ok([S1 EXCEPT !.conversations = WithRow(@, row)], row)

\* The project lookup without its owner predicate.
SelectProjectOwned_AnyOwner(S, project_id, user_id) ==
    {p \in Rows(S.projects) : p.id = project_id}

\* select from projects where id = ? and user_id = ?
SelectProjectOwned(S, project_id, user_id) ==
    {p \in Rows(S.projects) : p.id = project_id /\ p.user_id = user_id}

\* createConversation going straight to its insert.
createConversation_NoChecks(S, in, t) ==
    InsertConversation(S, [project_id |-> in.project_id, user_id |-> in.user_id,
                           title |-> in.title, ai_model |-> in.ai_model], t)

\* createConversation telling a project of another user from a missing one.
createConversation_Distinguishing(S, in, t) ==
    IF SelectById(S.users, in.user_id) = {}
    THEN Fail(S, Err("User with id not found", in.user_id, 0))
    ELSE IF SelectById(S.projects, in.project_id) = {}
    THEN Fail(S, Err("Project with id not found", in.project_id, 0))
    ELSE IF SelectProjectOwned(S, in.project_id, in.user_id) = {}
    THEN Fail(S, Err("Project does not belong to user", in.project_id, in.user_id))
    ELSE InsertConversation(S, [project_id |-> in.project_id, user_id |-> in.user_id,
                                title |-> in.title, ai_model |-> in.ai_model], t)

createConversation(S, in, t) ==
    IF SelectById(S.users, in.user_id) = {}
    THEN Fail(S, Err("User with id not found", in.user_id, 0))
    ELSE IF SelectProjectOwned(S, in.project_id, in.user_id) = {}
    THEN Fail(S, Err("Project with id not found or does not belong to user",
                     in.project_id, in.user_id))
    ELSE InsertConversation(S, [project_id |-> in.project_id, user_id |-> in.user_id,
                                title |-> in.title, ai_model |-> in.ai_model], t)

\* The insert into a messages table whose metadata column turns null into
\* an empty object.
InsertMessage_EmptyMetadata(S, vals, t) ==
    LET row == [id |-> NextVal(S, "messages"), conversation_id |-> vals.conversation_id,
                role |-> vals.role, content |-> vals.content,
                metadata |-> IF vals.metadata = NULL THEN "{}" ELSE vals.metadata,
                created_at |-> t]
        S1 == Advance(S, "messages")
    IN IF vals.conversation_id \notin DOMAIN S.conversations
       THEN Fail(S1, Err("violates foreign key constraint", vals.conversation_id, 0))
       ELSE Ok([S1 EXCEPT !.messages = WithRow(@, row)], row)

\* The insert into a messages table without its foreign key.
InsertMessage_NoFk(S, vals, t) ==
    LET row == [id |-> NextVal(S, "messages"), conversation_id |-> vals.conversation_id,
                role |-> vals.role, content |-> vals.content,
                metadata |-> vals.metadata, created_at |-> t]
    IN Ok([Advance(S, "messages") EXCEPT !.messages = WithRow(@, row)], row)

\* insert into messages ... returning, under messages_conversation_id_fk.
InsertMessage(S, vals, t) ==
    LET row == [id |-> NextVal(S, "messages"), conversation_id |-> vals.conversation_id,
                role |-> vals.role, content |-> vals.content,
                metadata |-> vals.metadata, created_at |-> t]
        S1 == Advance(S, "messages")
    IN IF vals.conversation_id \notin DOMAIN S.conversations
       THEN Fail(S1, Err("violates foreign key constraint", vals.conversation_id, 0))
       ELSE Ok([S1 EXCEPT !.messages = WithRow(@, row)], row)

\* createMessage inserting without the lookup, into a table without the
\* foreign key.
createMessage_NoLookup(S, in, t) ==
    LET row == [id |-> NextVal(S, "messages"), conversation_id |-> in.conversation_id,
                role |-> in.role, content |-> in.content,
                metadata |-> OrNull(in.metadata), created_at |-> t]
    IN Ok([Advance(S, "messages") EXCEPT !.messages = WithRow(@, row)], row)

createMessage(S, in, t) ==
    IF SelectById(S.conversations, in.conversation_id) = {}
    THEN Fail(S, Err("Conversation with id not found", in.conversation_id, 0))
    ELSE InsertMessage(S, [conversation_id |-> in.conversation_id, role |-> in.role,
                           content |-> in.content,
                           metadata |-> OrNull(in.metadata)], t)

\* The insert of a code snippet that also records, in the metadata of the
\* message it came from, that the message has a snippet.
InsertCodeSnippet_MarkMessage(S, vals, t) ==
    LET row == [id |-> NextVal(S, "code_snippets"),
                conversation_id |-> vals.conversation_id,
                message_id |-> vals.message_id, title |-> vals.title,
                code |-> vals.code, language |-> vals.language,
                description |-> vals.description,
                created_at |-> t, updated_at |-> t]
        S1 == Advance(S, "code_snippets")
    IN IF \/ vals.conversation_id \notin DOMAIN S.conversations
          \/ (vals.message_id # NullId /\ vals.message_id \notin DOMAIN S.messages)
       THEN Fail(S1, Err("violates foreign key constraint",
                         vals.conversation_id, vals.message_id))
       ELSE Ok([S1 EXCEPT !.code_snippets = WithRow(@, row),
                          !.messages = [i \in DOMAIN @ |->
                              IF i = vals.message_id
                              THEN [@[i] EXCEPT !.metadata = "{has_snippet}"]
                              ELSE @[i]]], row)

\* insert into code_snippets ... returning, under its two foreign keys
\* (a null message_id references nothing).
InsertCodeSnippet(S, vals, t) ==
    LET row == [id |-> NextVal(S, "code_snippets"),
                conversation_id |-> vals.conversation_id,
                message_id |-> vals.message_id, title |-> vals.title,
                code |-> vals.code, language |-> vals.language,
                description |-> vals.description,
                created_at |-> t, updated_at |-> t]
        S1 == Advance(S, "code_snippets")
    IN IF \/ vals.conversation_id \notin DOMAIN S.conversations
          \/ (vals.message_id # NullId /\ vals.message_id \notin DOMAIN S.messages)
       THEN Fail(S1, Err("violates foreign key constraint",
                         vals.conversation_id, vals.message_id))
       ELSE Ok([S1 EXCEPT !.code_snippets = WithRow(@, row)], row)

\* The message check that only looks the message up.
MessageCheck_ExistsOnly(S, in) ==
    IF FalsyId(in.message_id) THEN NoErr
    ELSE IF SelectById(S.messages, in.message_id) = {}
    THEN Err("Message with id not found", in.message_id, 0)
    ELSE NoErr

\* The message check of createCodeSnippet: the error it throws, or NoErr.
\* It runs only for a truthy message_id.
MessageCheck(S, in) ==
    IF FalsyId(in.message_id) THEN NoErr
    ELSE IF SelectById(S.messages, in.message_id) = {}
    THEN Err("Message with id not found", in.message_id, 0)
    ELSE IF S.messages[in.message_id].conversation_id # in.conversation_id
    THEN Err("Message does not belong to conversation",
             in.message_id, in.conversation_id)
    ELSE NoErr

createCodeSnippet(S, in, t) ==
    IF SelectById(S.conversations, in.conversation_id) = {}
    THEN Fail(S, Err("Conversation with id not found", in.conversation_id, 0))
    ELSE IF MessageCheck(S, in) # NoErr
    THEN Fail(S, MessageCheck(S, in))
    ELSE InsertCodeSnippet(S, [conversation_id |-> in.conversation_id,
                               message_id |-> OrNullId(in.message_id),
                               title |-> in.title, code |-> in.code,
                               language |-> in.language,
                               description |-> OrNull(in.description)], t)

\* The update object built on truthiness (`if (input.f) updateData.f = input.f`),
\* which drops an explicit null.
Patched_Truthy(old, new) == IF new \notin {UNDEF, NULL} THEN new ELSE old

\* A field of the update object: the stored value unless the input supplies
\* one (`if (input.f !== undefined) updateData.f = input.f`).
Patched(old, new) == IF new # UNDEF THEN new ELSE old

\* update users set ... where id = ? returning
UpdateUserRow(S, in, t) ==
    IF in.id \notin DOMAIN S.users THEN <<S, {}>>
    ELSE LET old == S.users[in.id]
             row == [old EXCEPT
                        !.updated_at = t,
                        !.name = Patched(@, in.name),
                        !.avatar_url = Patched(@, in.avatar_url),
                        !.preferred_coding_language =
                            Patched(@, in.preferred_coding_language),
                        !.preferred_ai_model = Patched(@, in.preferred_ai_model)]
         IN <<[S EXCEPT !.users[in.id] = row], {row}>>

updateUser(S, in, t) ==
    IF SelectById(S.users, in.id) = {}
    THEN Fail(S, Err("User with id not found", in.id, 0))
    ELSE LET r == UpdateUserRow(S, in, t)
         IN Ok(r[1], CHOOSE row \in r[2] : TRUE)

\* The project update writing created_at along with updated_at.
UpdateProjectRow_Touch(S, in, t) ==
    IF in.id \notin DOMAIN S.projects THEN <<S, {}>>
    ELSE LET old == S.projects[in.id]
             row == [old EXCEPT
                        !.created_at = t,
                        !.updated_at = t,
                        !.name = Patched(@, in.name),
                        !.description = Patched(@, in.description),
                        !.coding_language = Patched(@, in.coding_language)]
         IN <<[S EXCEPT !.projects[in.id] = row], {row}>>

\* update projects set ... where id = ? returning
UpdateProjectRow(S, in, t) ==
    IF in.id \notin DOMAIN S.projects THEN <<S, {}>>
    ELSE LET old == S.projects[in.id]
             row == [old EXCEPT
                        !.updated_at = t,
                        !.name = Patched(@, in.name),
                        !.description = Patched(@, in.description),
                        !.coding_language = Patched(@, in.coding_language)]
         IN <<[S EXCEPT !.projects[in.id] = row], {row}>>

updateProject(S, in, t) ==
    IF SelectById(S.projects, in.id) = {}
    THEN Fail(S, Err("Project with id not found", in.id, 0))
    ELSE LET r == UpdateProjectRow(S, in, t)
         IN Ok(r[1], CHOOSE row \in r[2] : TRUE)

\* update conversations set ... where id = ? returning
UpdateConversationRow(S, in, t) ==
    IF in.id \notin DOMAIN S.conversations THEN <<S, {}>>
    ELSE LET old == S.conversations[in.id]
             row == [old EXCEPT
                        !.updated_at = t,
                        !.title = Patched(@, in.title),
                        !.ai_model = Patched(@, in.ai_model)]
         IN <<[S EXCEPT !.conversations[in.id] = row], {row}>>

updateConversation(S, in, t) ==
    LET r == UpdateConversationRow(S, in, t)
    IN IF r[2] = {}
       THEN Fail(r[1], Err("Conversation with id not found", in.id, 0))
       ELSE Ok(r[1], CHOOSE row \in r[2] : TRUE)

\* update code_snippets set ... where id = ? returning
UpdateCodeSnippetRow(S, in, t) ==
    IF in.id \notin DOMAIN S.code_snippets THEN <<S, {}>>
    ELSE LET old == S.code_snippets[in.id]
             row == [old EXCEPT
                        !.updated_at = t,
                        !.title = Patched(@, in.title),
                        !.code = Patched(@, in.code),
                        !.language = Patched(@, in.language),
                        !.description = Patched(@, in.description)]
         IN <<[S EXCEPT !.code_snippets[in.id] = row], {row}>>

\* updateCodeSnippet without the test of the statement's result.
updateCodeSnippet_Silent(S, in, t) ==
    LET r == UpdateCodeSnippetRow(S, in, t)
    IN IF r[2] = {} THEN Ok(r[1], Void) ELSE Ok(r[1], CHOOSE row \in r[2] : TRUE)

updateCodeSnippet(S, in, t) ==
    LET r == UpdateCodeSnippetRow(S, in, t)
    IN IF r[2] = {}
       THEN Fail(r[1], Err("Code snippet with id not found", in.id, 0))
       ELSE Ok(r[1], CHOOSE row \in r[2] : TRUE)

\* The four update routes, the table each one writes and the fields its
\* input may carry.
UpdateOps == {"updateUser", "updateProject", "updateConversation", "updateCodeSnippet"}

TableOf(S, op) ==
    CASE op = "updateUser" -> S.users
      [] op = "updateProject" -> S.projects
      [] op = "updateConversation" -> S.conversations
      [] op = "updateCodeSnippet" -> S.code_snippets

MutableFields(op) ==
    CASE op = "updateUser" ->
            {"name", "avatar_url", "preferred_coding_language", "preferred_ai_model"}
      [] op = "updateProject" -> {"name", "description", "coding_language"}
      [] op = "updateConversation" -> {"title", "ai_model"}
      [] op = "updateCodeSnippet" -> {"title", "code", "language", "description"}

\* The conditional delete without its owner predicate.
ProjectsToDelete_AnyOwner(S, projectId, userId) ==
    {p \in DOMAIN S.projects : p = projectId}

\* delete from projects where id = ? and user_id = ?: the rows it removes.
ProjectsToDelete(S, projectId, userId) ==
    {p \in DOMAIN S.projects : p = projectId /\ S.projects[p].user_id = userId}

\* deleteProject reporting success whatever the statement removed.
deleteProject_AlwaysTrue(S, projectId, userId) ==
    Ok(DeleteProjects(S, ProjectsToDelete(S, projectId, userId)), Returned(TRUE))

\* rowCount > 0 of the conditional delete; the cascade is the store's.
deleteProject(S, projectId, userId) ==
    LET pids == ProjectsToDelete(S, projectId, userId)
    IN Ok(DeleteProjects(S, pids), Returned(Cardinality(pids) > 0))

\* select code_snippets.id, conversations.user_id from code_snippets
\* inner join conversations on conversation_id = conversations.id where id = ?
SnippetWithConversation(S, snippetId) ==
    {[snippet_id |-> s.id, user_id |-> c.user_id] :
        <<s, c>> \in {x \in Rows(S.code_snippets) \X Rows(S.conversations) :
                        x[1].id = snippetId /\ x[1].conversation_id = x[2].id}}

\* The delete of a code snippet taking the message it came from with it.
DeleteSnippetRows_WithMessage(S, snippetId) ==
    LET sids == {s \in DOMAIN S.code_snippets : s = snippetId}
        mids == {S.code_snippets[s].message_id : s \in sids} \cap DOMAIN S.messages
    IN <<[S EXCEPT !.code_snippets = Without(@, sids),
                   !.messages = Without(@, mids)], Cardinality(sids)>>

\* delete from code_snippets where id = ?
DeleteSnippetRows(S, snippetId) ==
    LET sids == {s \in DOMAIN S.code_snippets : s = snippetId}
    IN <<[S EXCEPT !.code_snippets = Without(@, sids)], Cardinality(sids)>>

\* deleteCodeSnippet without the comparison of the conversation's user_id.
deleteCodeSnippet_NoOwnerCheck(S, snippetId, userId) ==
    IF SnippetWithConversation(S, snippetId) = {} THEN Ok(S, Returned(FALSE))
    ELSE Ok(DeleteSnippetRows(S, snippetId)[1],
            Returned(DeleteSnippetRows(S, snippetId)[2] > 0))

deleteCodeSnippet(S, snippetId, userId) ==
    LET found == SnippetWithConversation(S, snippetId)
    IN IF found = {} THEN Ok(S, Returned(FALSE))
       ELSE IF (CHOOSE f \in found : TRUE).user_id # userId THEN Ok(S, Returned(FALSE))
       ELSE LET r == DeleteSnippetRows(S, snippetId)
            IN Ok(r[1], Returned(r[2] > 0))

\* ------------------------------------------------------------- inputs
\* What the input schemas of src/server/src/schema.ts accept, over the small
\* value sets above.  An optional field may be left out (UNDEF); a nullable
\* one may also be null.
CreateUserInputs ==
    [email : Emails, name : {"a"}, avatar_url : {UNDEF, NULL, "u"},
     auth_provider : Providers, auth_provider_id : ProviderIds,
     preferred_coding_language : {"javascript"},
     preferred_ai_model : {"claude-sonnet"}]

UpdateUserInputs ==
    [id : IdInputs(MaxUsers), name : {UNDEF, "b"}, avatar_url : {UNDEF, NULL, "v"},
     preferred_coding_language : {UNDEF, "python"},
     preferred_ai_model : {UNDEF, "gpt-4"}]

CreateProjectInputs ==
    [user_id : IdInputs(MaxUsers), name : {"a"}, description : {UNDEF, NULL, "", "d"},
     coding_language : {"javascript"}]

UpdateProjectInputs ==
    [id : IdInputs(MaxProjects), name : {UNDEF, "b"}, description : {UNDEF, NULL, "e"},
     coding_language : {UNDEF, "python"}]

CreateConversationInputs ==
    [project_id : IdInputs(MaxProjects), user_id : IdInputs(MaxUsers),
     title : {"a"}, ai_model : {"claude-sonnet"}]

UpdateConversationInputs ==
    [id : IdInputs(MaxConversations), title : {UNDEF, "b"},
     ai_model : {UNDEF, "gpt-4"}]

CreateMessageInputs ==
    [conversation_id : IdInputs(MaxConversations), role : {"user"},
     content : {"a"}, metadata : {UNDEF, NULL, "{k:v}"}]

CreateCodeSnippetInputs ==
    [conversation_id : IdInputs(MaxConversations),
     message_id : {UndefId, NullId} \cup IdInputs(MaxMessages),
     title : {"a"}, code : {"a"}, language : {"javascript"},
     description : {UNDEF, NULL, "", "d"}]

UpdateCodeSnippetInputs ==
    [id : IdInputs(MaxSnippets), title : {UNDEF, "b"}, code : {UNDEF, "b"},
     language : {UNDEF, "python"}, description : {UNDEF, NULL, "e"}]

\* authInputSchema, without the fields getUserByAuth does not read (email,
\* password, name, avatar_url).
AuthInputs == [auth_provider : Providers, auth_provider_id : ProviderIds \cup {"p2"}]

GetUserByIdInputs == [userId : IdInputs(MaxUsers)]

GetUserProjectsInputs == [user_id : IdInputs(MaxUsers)]

GetProjectConversationsInputs == [project_id : IdInputs(MaxListed)]

GetConversationMessagesInputs == [conversation_id : IdInputs(MaxListed)]

GetConversationCodeSnippetsInputs == [conversation_id : IdInputs(MaxListed)]

DeleteProjectInputs == [projectId : IdInputs(MaxProjects), userId : IdInputs(MaxUsers)]

DeleteCodeSnippetInputs == [snippetId : IdInputs(MaxSnippets), userId : IdInputs(MaxUsers)]

\* ------------------------------------------------------------ actions
\* The clients whose requests the server handles at once, none in flight.
Clients == 1 .. MaxClients

Idle == [pc |-> "idle", in |-> Void, res |-> Void]

NoCalls == [q \in Clients |-> Idle]

NoCall == [op |-> "init", in |-> Void, ok |-> TRUE, err |-> NoErr, out |-> Void]

Init ==
    /\ db = EmptyDb
    /\ now = 0
    /\ last = NoCall
    /\ updates = 0
    /\ deleted = {}
    /\ calls = NoCalls

\* The serial sequences stay within the bounds of the model.
InBounds(S) ==
    /\ S.seq.users <= MaxUsers + 1
    /\ S.seq.projects <= MaxProjects + 1
    /\ S.seq.conversations <= MaxConversations + 1
    /\ S.seq.messages <= MaxMessages + 1
    /\ S.seq.code_snippets <= MaxSnippets + 1

\* One request: the router hands the validated input to the handler, whose
\* result r becomes the store and the response.
Call(op, in, r) ==
    /\ InBounds(r.db)
    /\ db' = r.db
    /\ last' = [op |-> op, in |-> in, ok |-> r.ok, err |-> r.err, out |-> r.out]
    /\ deleted' = IF op = "deleteProject" /\ r.out = Returned(TRUE) THEN deleted \cup {in}
                  ELSE deleted
    /\ UNCHANGED <<now, calls>>

\* An update request; at most MaxUpdates of them change the store.
CallUpdate(op, in, r) ==
    /\ r.db # db => updates < MaxUpdates
    /\ Call(op, in, r)
    /\ updates' = IF r.db # db THEN updates + 1 ELSE updates

CallCreateUser(Ins) ==
    /\ \E in \in Ins : Call("createUser", in, createUser(db, in, now))
    /\ UNCHANGED updates

CallUpdateUser(Ins) ==
    \E in \in Ins : CallUpdate("updateUser", in, updateUser(db, in, now))

CallCreateProject(Ins) ==
    /\ \E in \in Ins : Call("createProject", in, createProject(db, in, now))
    /\ UNCHANGED updates

CallUpdateProject(Ins) ==
    \E in \in Ins : CallUpdate("updateProject", in, updateProject(db, in, now))

CallDeleteProject ==
    /\ \E in \in DeleteProjectInputs :
          Call("deleteProject", in, deleteProject(db, in.projectId, in.userId))
    /\ UNCHANGED updates

CallCreateConversation(Ins) ==
    /\ \E in \in Ins : Call("createConversation", in, createConversation(db, in, now))
    /\ UNCHANGED updates

CallUpdateConversation(Ins) ==
    \E in \in Ins : CallUpdate("updateConversation", in, updateConversation(db, in, now))

CallCreateMessage(Ins) ==
    /\ \E in \in Ins : Call("createMessage", in, createMessage(db, in, now))
    /\ UNCHANGED updates

CallCreateCodeSnippet(Ins) ==
    /\ \E in \in Ins : Call("createCodeSnippet", in, createCodeSnippet(db, in, now))
    /\ UNCHANGED updates

CallUpdateCodeSnippet(Ins) ==
    \E in \in Ins : CallUpdate("updateCodeSnippet", in, updateCodeSnippet(db, in, now))

CallDeleteCodeSnippet ==
    /\ \E in \in DeleteCodeSnippetInputs :
          Call("deleteCodeSnippet", in, deleteCodeSnippet(db, in.snippetId, in.userId))
    /\ UNCHANGED updates

CallGetUserById ==
    /\ \E in \in GetUserByIdInputs : Call("getUserById", in, getUserById(db, in.userId))
    /\ UNCHANGED updates

CallGetUserByAuth ==
    /\ \E in \in AuthInputs : \E r \in getUserByAuth(db, in) : Call("getUserByAuth", in, r)
    /\ UNCHANGED updates

\* Time passes between two requests.
Tick ==
    /\ now < MaxTime
    /\ now' = now + 1
    /\ last' = [NoCall EXCEPT !.op = "tick"]
    /\ UNCHANGED <<db, updates, deleted, calls>>

\* -------------------------------------------------- specification Spec
\* Every mutating route of the router, from the empty store, served within
\* one reading of the clock.  The text fields that no handler inspects take
\* one value at creation, and an update supplies no field (SpecUpd has the
\* updates with their fields, under a running clock).
NoFields(Ins, fields) == {in \in Ins : \A f \in fields : in[f] = UNDEF}

Next ==
    \/ CallCreateUser({in \in CreateUserInputs :
                          in.avatar_url = "u" /\ in.auth_provider = "google"})
    \/ CallUpdateUser(NoFields(UpdateUserInputs,
                               {"name", "avatar_url", "preferred_coding_language",
                                "preferred_ai_model"}))
    \/ CallCreateProject({in \in CreateProjectInputs : in.description = "d"})
    \/ CallUpdateProject(NoFields(UpdateProjectInputs,
                                  {"name", "description", "coding_language"}))
    \/ CallDeleteProject
    \/ CallCreateConversation(CreateConversationInputs)
    \/ CallUpdateConversation(NoFields(UpdateConversationInputs, {"title", "ai_model"}))
    \/ CallCreateMessage({in \in CreateMessageInputs : in.metadata = UNDEF})
    \/ CallCreateCodeSnippet({in \in CreateCodeSnippetInputs : in.description = "d"})
    \/ CallUpdateCodeSnippet(NoFields(UpdateCodeSnippetInputs,
                                      {"title", "code", "language", "description"}))
    \/ CallDeleteCodeSnippet

Spec == Init /\ [][Next]_vars

\* ----------------------------------------------- specification SpecUpd
\* The update routes with every combination of supplied fields, under a
\* running clock, on a store holding one row of each kind.  The store is one
\* the create handlers build from the empty store at time 0.
SeedDb(avatar, pdesc, sdesc) ==
    LET S1 == createUser(EmptyDb,
                  [email |-> "e1", name |-> "a", avatar_url |-> avatar,
                   auth_provider |-> "google", auth_provider_id |-> "p1",
                   preferred_coding_language |-> "javascript",
                   preferred_ai_model |-> "claude-sonnet"], 0).db
        S2 == createProject(S1,
                  [user_id |-> 1, name |-> "a", description |-> pdesc,
                   coding_language |-> "javascript"], 0).db
        S3 == createConversation(S2,
                  [project_id |-> 1, user_id |-> 1, title |-> "a",
                   ai_model |-> "claude-sonnet"], 0).db
        S4 == createMessage(S3,
                  [conversation_id |-> 1, role |-> "user", content |-> "a",
                   metadata |-> UNDEF], 0).db
    IN createCodeSnippet(S4,
                  [conversation_id |-> 1, message_id |-> 1, title |-> "a",
                   code |-> "a", language |-> "javascript",
                   description |-> sdesc], 0).db

SeedDbs == {SeedDb(UNDEF, UNDEF, UNDEF), SeedDb("u", "d", "d")}

\* The ids sent to the update routes: the seeded row's and one of no row.
SeedIds(Ins) == {in \in Ins : in.id <= 1}

InitUpd ==
    /\ db \in SeedDbs
    /\ now = 0
    /\ last = NoCall
    /\ updates = 0
    /\ deleted = {}
    /\ calls = NoCalls

NextUpd ==
    \/ CallUpdateUser(SeedIds(UpdateUserInputs))
    \/ CallUpdateProject(SeedIds(UpdateProjectInputs))
    \/ CallUpdateConversation(SeedIds(UpdateConversationInputs))
    \/ CallUpdateCodeSnippet(SeedIds(UpdateCodeSnippetInputs))
    \/ Tick

SpecUpd == InitUpd /\ [][NextUpd]_vars

\* ---------------------------------------------- specification SpecList
\* The list routes over stores that grow to two rows a table under a running
\* clock: two users with a project and a conversation at the start, then
\* creates and updates that succeed (the failing ones are in Spec and
\* SpecUpd), which move created_at and updated_at, and the four list calls.
ListSeed ==
    LET S1 == createUser(EmptyDb, [email |-> "e1", name |-> "a", avatar_url |-> UNDEF,
                                   auth_provider |-> "google", auth_provider_id |-> "p1",
                                   preferred_coding_language |-> "javascript",
                                   preferred_ai_model |-> "claude-sonnet"], 0).db
        S2 == createUser(S1, [email |-> "e2", name |-> "a", avatar_url |-> UNDEF,
                              auth_provider |-> "google", auth_provider_id |-> "p1",
                              preferred_coding_language |-> "javascript",
                              preferred_ai_model |-> "claude-sonnet"], 0).db
        S3 == createProject(S2, [user_id |-> 1, name |-> "a", description |-> UNDEF,
                                 coding_language |-> "javascript"], 0).db
    IN createConversation(S3, [project_id |-> 1, user_id |-> 1, title |-> "a",
                               ai_model |-> "claude-sonnet"], 0).db

InitList ==
    /\ db = ListSeed
    /\ now = 0
    /\ last = NoCall
    /\ updates = 0
    /\ deleted = {}
    /\ calls = NoCalls

InBoundsList(S) ==
    /\ S.seq.users <= MaxUsers + 1
    /\ S.seq.projects <= MaxListed + 1
    /\ S.seq.conversations <= MaxListed + 1
    /\ S.seq.messages <= MaxListed + 1
    /\ S.seq.code_snippets <= MaxListed + 1

\* One request of this specification.
Serve(op, in, r) ==
    /\ InBoundsList(r.db)
    /\ db' = r.db
    /\ last' = [op |-> op, in |-> in, ok |-> r.ok, err |-> r.err, out |-> r.out]
    /\ UNCHANGED <<now, updates, deleted, calls>>

ServeCreateProject ==
    \E in \in NoFields(CreateProjectInputs, {"description"}) :
        /\ in.user_id \in DOMAIN db.users
        /\ Serve("createProject", in, createProject(db, in, now))

ServeCreateConversation ==
    \E in \in CreateConversationInputs :
        /\ SelectProjectOwned(db, in.project_id, in.user_id) # {}
        /\ Serve("createConversation", in, createConversation(db, in, now))

ServeCreateMessage ==
    \E in \in [conversation_id : 1 .. MaxListed, role : {"user"},
               content : {"a"}, metadata : {UNDEF}] :
        /\ in.conversation_id \in DOMAIN db.conversations
        /\ Serve("createMessage", in, createMessage(db, in, now))

ServeCreateCodeSnippet ==
    \E in \in [conversation_id : 1 .. MaxListed, message_id : {UndefId},
               title : {"a"}, code : {"a"}, language : {"javascript"},
               description : {UNDEF}] :
        /\ in.conversation_id \in DOMAIN db.conversations
        /\ Serve("createCodeSnippet", in, createCodeSnippet(db, in, now))

ServeUpdateProject ==
    \E in \in NoFields(UpdateProjectInputs, {"name", "description", "coding_language"}) :
        /\ in.id \in DOMAIN db.projects
        /\ Serve("updateProject", in, updateProject(db, in, now))

ServeUpdateConversation ==
    \E in \in NoFields(UpdateConversationInputs, {"title", "ai_model"}) :
        /\ in.id \in DOMAIN db.conversations
        /\ Serve("updateConversation", in, updateConversation(db, in, now))

ServeGetUserProjects ==
    \E in \in GetUserProjectsInputs : \E r \in getUserProjects(db, in) :
        Serve("getUserProjects", in, r)

ServeGetProjectConversations ==
    \E in \in GetProjectConversationsInputs : \E r \in getProjectConversations(db, in) :
        Serve("getProjectConversations", in, r)

ServeGetConversationMessages ==
    \E in \in GetConversationMessagesInputs : \E r \in getConversationMessages(db, in) :
        Serve("getConversationMessages", in, r)

ServeGetConversationCodeSnippets ==
    \E in \in GetConversationCodeSnippetsInputs :
        \E r \in getConversationCodeSnippets(db, in) :
            Serve("getConversationCodeSnippets", in, r)

NextList ==
    \/ ServeCreateProject
    \/ ServeCreateConversation
    \/ ServeCreateMessage
    \/ ServeCreateCodeSnippet
    \/ ServeUpdateProject
    \/ ServeUpdateConversation
    \/ ServeGetUserProjects
    \/ ServeGetProjectConversations
    \/ ServeGetConversationMessages
    \/ ServeGetConversationCodeSnippets
    \/ Tick

SpecList == InitList /\ [][NextList]_vars

\* ---------------------------------------------- specification SpecConc
\* deleteProject requests of several clients in flight at once over a store
\* of two users, a project and a conversation.  The handler awaits one
\* statement, which the store runs atomically, and returns its row count
\* compared with 0; requests interleave between their steps.
InvokeDeleteProject(q) ==
    /\ calls[q].pc = "idle"
    /\ \E in \in DeleteProjectInputs :
          calls' = [calls EXCEPT ![q] = [pc |-> "called", in |-> in, res |-> Void]]
    /\ UNCHANGED <<db, now, last, updates, deleted>>

\* The handler as a select by (id, user_id) followed, in a second statement,
\* by the delete by id, its result that of the select.
DeleteProjectStatement_Split(q) ==
    /\ calls[q].pc = "called"
    /\ LET in == calls[q].in
       IN IF calls[q].res = Void
          THEN /\ calls' = [calls EXCEPT ![q].res =
                               Returned(ProjectsToDelete(db, in.projectId, in.userId) # {})]
               /\ db' = db
          ELSE /\ calls' = [calls EXCEPT ![q].pc = "returned"]
               /\ db' = IF calls[q].res = Returned(TRUE)
                        THEN DeleteProjects(db, {in.projectId} \cap DOMAIN db.projects)
                        ELSE db
    /\ UNCHANGED <<now, last, updates, deleted>>

\* await db.delete(projectsTable).where(...).execute(); return rowCount > 0
DeleteProjectStatement(q) ==
    /\ calls[q].pc = "called"
    /\ LET r == deleteProject(db, calls[q].in.projectId, calls[q].in.userId)
       IN /\ db' = r.db
          /\ calls' = [calls EXCEPT ![q].pc = "returned", ![q].res = r.out]
    /\ UNCHANGED <<now, last, updates, deleted>>

InitConc ==
    /\ db = ListSeed
    /\ now = 0
    /\ last = NoCall
    /\ updates = 0
    /\ deleted = {}
    /\ calls = NoCalls

NextConc ==
    \E q \in Clients :
        \/ InvokeDeleteProject(q)
        \/ DeleteProjectStatement(q)

SpecConc == InitConc /\ [][NextConc]_vars

\* ---------------------------------------------- specification SpecRace
\* Requests of two clients in flight at once, each handler advancing one
\* awaited store statement at a time, the statements of the two interleaved
\* in every order and the clock running: updateProject, updateConversation,
\* createMessage, createConversation and deleteProject over a store of two
\* users, a project, a conversation, a message and a code snippet.
Racers == 1 .. MaxRacers

\* `return result[0]` of a statement that returned no row
Undefined == [undefined |-> TRUE]

RaceSeed ==
    LET S1 == createMessage(ListSeed, [conversation_id |-> 1, role |-> "user",
                                       content |-> "a", metadata |-> UNDEF], 0).db
    IN createCodeSnippet(S1, [conversation_id |-> 1, message_id |-> 1, title |-> "a",
                              code |-> "a", language |-> "javascript",
                              description |-> UNDEF], 0).db

\* A step of the handler serving client q that touches the request alone.
Goto(q, rec) ==
    /\ calls' = [calls EXCEPT ![q] = rec]
    /\ UNCHANGED <<db, now, last, updates, deleted>>

\* A step of the handler serving client q that runs a store statement.
Run(q, S, rec) ==
    /\ InBoundsList(S)
    /\ db' = S
    /\ calls' = [calls EXCEPT ![q] = rec]
    /\ UNCHANGED <<now, last, updates, deleted>>

At(q, pc) == calls[q].pc = pc

InvokeUpdateProject(q) ==
    /\ At(q, "idle")
    /\ \E in \in SeedIds(NoFields(UpdateProjectInputs,
                                   {"name", "description", "coding_language"})) :
          Goto(q, [pc |-> "updateProject.select", in |-> in, res |-> Void, t |-> 0])

\* const existingProject = await db.select()...; throw when empty; then the
\* update object is built around new Date().
UpdateProjectSelect(q) ==
    /\ At(q, "updateProject.select")
    /\ IF SelectById(db.projects, calls[q].in.id) = {}
       THEN Goto(q, [calls[q] EXCEPT !.pc = "updateProject.thrown",
                        !.res = Err("Project with id not found", calls[q].in.id, 0)])
       ELSE Goto(q, [calls[q] EXCEPT !.pc = "updateProject.update", !.t = now])

\* const result = await db.update(projectsTable)...returning(); return result[0]
UpdateProjectUpdate(q) ==
    /\ At(q, "updateProject.update")
    /\ LET r == UpdateProjectRow(db, calls[q].in, calls[q].t)
       IN Run(q, r[1], [calls[q] EXCEPT !.pc = "updateProject.returned",
                           !.res = IF r[2] = {} THEN Undefined
                                   ELSE CHOOSE row \in r[2] : TRUE])

\* updateValues = { updated_at: new Date() } on entry
InvokeUpdateConversation(q) ==
    /\ At(q, "idle")
    /\ \E in \in SeedIds(NoFields(UpdateConversationInputs, {"title", "ai_model"})) :
          Goto(q, [pc |-> "updateConversation.update", in |-> in, res |-> Void,
                   t |-> now])

\* const result = await db.update(conversationsTable)...returning(); throw
\* when empty
UpdateConversationUpdate(q) ==
    /\ At(q, "updateConversation.update")
    /\ LET r == UpdateConversationRow(db, calls[q].in, calls[q].t)
       IN IF r[2] = {}
          THEN Run(q, r[1], [calls[q] EXCEPT !.pc = "updateConversation.thrown",
                                !.res = Err("Conversation with id not found",
                                            calls[q].in.id, 0)])
          ELSE Run(q, r[1], [calls[q] EXCEPT !.pc = "updateConversation.returned",
                                !.res = CHOOSE row \in r[2] : TRUE])

InvokeCreateMessage(q) ==
    /\ At(q, "idle")
    /\ \E in \in {i \in CreateMessageInputs : i.conversation_id = 1 /\ i.metadata = UNDEF} :
          Goto(q, [pc |-> "createMessage.select", in |-> in, res |-> Void])

\* const conversation = await db.select()...; throw when empty
CreateMessageSelect(q) ==
    /\ At(q, "createMessage.select")
    /\ IF SelectById(db.conversations, calls[q].in.conversation_id) = {}
       THEN Goto(q, [calls[q] EXCEPT !.pc = "createMessage.thrown",
                        !.res = Err("Conversation with id not found",
                                    calls[q].in.conversation_id, 0)])
       ELSE Goto(q, [calls[q] EXCEPT !.pc = "createMessage.insert"])

\* const result = await db.insert(messagesTable)...returning()
CreateMessageInsert(q) ==
    /\ At(q, "createMessage.insert")
    /\ LET in == calls[q].in
           r == InsertMessage(db, [conversation_id |-> in.conversation_id,
                                   role |-> in.role, content |-> in.content,
                                   metadata |-> OrNull(in.metadata)], now)
       IN Run(q, r.db, [calls[q] EXCEPT
                           !.pc = IF r.ok THEN "createMessage.returned"
                                  ELSE "createMessage.thrown",
                           !.res = IF r.ok THEN r.out ELSE r.err])

InvokeCreateConversation(q) ==
    /\ At(q, "idle")
    /\ \E in \in {i \in CreateConversationInputs : i.project_id = 1 /\ i.user_id = 1} :
          Goto(q, [pc |-> "createConversation.selectUser", in |-> in, res |-> Void])

\* const user = await db.select()...; throw when empty
CreateConversationSelectUser(q) ==
    /\ At(q, "createConversation.selectUser")
    /\ IF SelectById(db.users, calls[q].in.user_id) = {}
       THEN Goto(q, [calls[q] EXCEPT !.pc = "createConversation.thrown",
                        !.res = Err("User with id not found", calls[q].in.user_id, 0)])
       ELSE Goto(q, [calls[q] EXCEPT !.pc = "createConversation.selectProject"])

\* const project = await db.select()...where(and(id, user_id)); throw when
\* empty
CreateConversationSelectProject(q) ==
    /\ At(q, "createConversation.selectProject")
    /\ IF SelectProjectOwned(db, calls[q].in.project_id, calls[q].in.user_id) = {}
       THEN Goto(q, [calls[q] EXCEPT !.pc = "createConversation.thrown",
                        !.res = Err("Project with id not found or does not belong to user",
                                    calls[q].in.project_id, calls[q].in.user_id)])
       ELSE Goto(q, [calls[q] EXCEPT !.pc = "createConversation.insert"])

\* const result = await db.insert(conversationsTable)...returning()
CreateConversationInsert(q) ==
    /\ At(q, "createConversation.insert")
    /\ LET in == calls[q].in
           r == InsertConversation(db, [project_id |-> in.project_id,
                                        user_id |-> in.user_id, title |-> in.title,
                                        ai_model |-> in.ai_model], now)
       IN Run(q, r.db, [calls[q] EXCEPT
                           !.pc = IF r.ok THEN "createConversation.returned"
                                  ELSE "createConversation.thrown",
                           !.res = IF r.ok THEN r.out ELSE r.err])

InvokeDeleteCodeSnippet(q) ==
    /\ At(q, "idle")
    /\ \E in \in {i \in DeleteCodeSnippetInputs : i.snippetId = 1 /\ i.userId >= 1} :
          Goto(q, [pc |-> "deleteCodeSnippet.select", in |-> in, res |-> Void])

\* const snippetWithConversation = await db.select()...innerJoin(...); return
\* false when empty or when the conversation is another user's
DeleteCodeSnippetSelect(q) ==
    /\ At(q, "deleteCodeSnippet.select")
    /\ LET found == SnippetWithConversation(db, calls[q].in.snippetId)
       IN IF found = {} \/ (\E f \in found : f.user_id # calls[q].in.userId)
          THEN Goto(q, [calls[q] EXCEPT !.pc = "deleteCodeSnippet.returned",
                           !.res = Returned(FALSE)])
          ELSE Goto(q, [calls[q] EXCEPT !.pc = "deleteCodeSnippet.delete"])

\* The delete statement reporting success whatever its row count.
DeleteCodeSnippetDelete_Found(q) ==
    /\ At(q, "deleteCodeSnippet.delete")
    /\ Run(q, DeleteSnippetRows(db, calls[q].in.snippetId)[1],
           [calls[q] EXCEPT !.pc = "deleteCodeSnippet.returned",
                            !.res = Returned(TRUE)])

\* const result = await db.delete(codeSnippetsTable)...; return
\* (result.rowCount ?? 0) > 0
DeleteCodeSnippetDelete(q) ==
    /\ At(q, "deleteCodeSnippet.delete")
    /\ LET r == DeleteSnippetRows(db, calls[q].in.snippetId)
       IN Run(q, r[1], [calls[q] EXCEPT !.pc = "deleteCodeSnippet.returned",
                           !.res = Returned(r[2] > 0)])

InitRace ==
    /\ db = RaceSeed
    /\ now = 0
    /\ last = NoCall
    /\ updates = 0
    /\ deleted = {}
    /\ calls = NoCalls

NextRace ==
    \/ \E q \in Racers :
          \/ InvokeUpdateProject(q)
          \/ UpdateProjectSelect(q)
          \/ UpdateProjectUpdate(q)
          \/ InvokeUpdateConversation(q)
          \/ UpdateConversationUpdate(q)
          \/ InvokeCreateMessage(q)
          \/ CreateMessageSelect(q)
          \/ CreateMessageInsert(q)
          \/ InvokeCreateConversation(q)
          \/ CreateConversationSelectUser(q)
          \/ CreateConversationSelectProject(q)
          \/ CreateConversationInsert(q)
          \/ InvokeDeleteCodeSnippet(q)
          \/ DeleteCodeSnippetSelect(q)
          \/ DeleteCodeSnippetDelete(q)
          \/ InvokeDeleteProject(q)
          \/ DeleteProjectStatement(q)
    \/ Tick

SpecRace == InitRace /\ [][NextRace]_vars

\* --------------------------------------------- specification SpecStore
\* The create routes with every input their schemas accept, the message
\* list, and the removal of a message row by the store (no route removes a
\* message alone; the statement is the store's, with the referential actions
\* of the schema), from two users with a project and a conversation.
CallGetConversationMessages ==
    /\ \E in \in GetConversationMessagesInputs :
          \E r \in getConversationMessages(db, in) :
              Call("getConversationMessages", in, r)
    /\ UNCHANGED updates

\* delete from messages where id = ?
StoreDeleteMessage ==
    /\ \E mid \in DOMAIN db.messages :
          /\ db' = DeleteMessages(db, {mid})
          /\ last' = [op |-> "delete from messages", in |-> [messageId |-> mid],
                      ok |-> TRUE, err |-> NoErr,
                      out |-> [referenced_by |->
                                 {s \in DOMAIN db.code_snippets :
                                     db.code_snippets[s].message_id = mid}]]
    /\ UNCHANGED <<now, updates, deleted, calls>>

NextStore ==
    \/ CallCreateProject(CreateProjectInputs)
    \/ CallCreateConversation(CreateConversationInputs)
    \/ CallCreateMessage(CreateMessageInputs)
    \/ CallCreateCodeSnippet(CreateCodeSnippetInputs)
    \/ CallGetConversationMessages
    \/ StoreDeleteMessage

SpecStore == InitList /\ [][NextStore]_vars

\* --------------------------------------------- specification SpecUsers
\* The user routes alone, from the empty store, with every createUser input
\* and a running clock.
NextUsers ==
    \/ CallCreateUser(CreateUserInputs)
    \/ CallGetUserById
    \/ CallGetUserByAuth
    \/ Tick

SpecUsers == Init /\ [][NextUsers]_vars

\* ------------------------------------------------------------- claims

\* C1: every conversation's user_id is the user_id of the project its
\* project_id names.
C1_ConversationOwnerIsProjectOwner ==
    \A c \in Rows(db.conversations) :
        /\ c.project_id \in DOMAIN db.projects
        /\ c.user_id = db.projects[c.project_id].user_id

\* Two projects of two owners, each with a conversation, after an update of
\* a conversation.
C1_Witness ==
    /\ last.op = "updateConversation" /\ last.ok
    /\ \E c1, c2 \in Rows(db.conversations) :
          /\ c1.user_id # c2.user_id
          /\ c1.project_id # c2.project_id

\* The three cases in which createConversation must fail.
C2_Case(S, in) ==
    \/ in.user_id \notin DOMAIN S.users
    \/ in.project_id \notin DOMAIN S.projects
    \/ S.projects[in.project_id].user_id # in.user_id

C2_NotFoundMessages ==
    {"User with id not found", "Project with id not found or does not belong to user"}

\* C2: createConversation for a missing user, a missing project or a project
\* of another user throws a not-found error and leaves the store as it was.
C2_CreateConversationFails ==
    [][(last'.op = "createConversation" /\ C2_Case(db, last'.in))
          => /\ ~last'.ok
             /\ last'.err.msg \in C2_NotFoundMessages
             /\ db' = db]_vars

\* createConversation has failed for an existing user on an existing project
\* that another user owns.
C2_Witness ==
    /\ last.op = "createConversation" /\ ~last.ok
    /\ last.in.user_id \in DOMAIN db.users
    /\ last.in.project_id \in DOMAIN db.projects
    /\ db.projects[last.in.project_id].user_id # last.in.user_id

\* C3: a code snippet's non-null message_id names a message of the snippet's
\* own conversation.
C3_SnippetMessageInSameConversation ==
    \A s \in Rows(db.code_snippets) :
        s.message_id # NullId =>
            /\ s.message_id \in DOMAIN db.messages
            /\ db.messages[s.message_id].conversation_id = s.conversation_id

\* A snippet attached to a message, with a second conversation in the store.
C3_Witness ==
    /\ \E s \in Rows(db.code_snippets) : s.message_id # NullId
    /\ Cardinality(DOMAIN db.conversations) = 2

\* The cases in which createCodeSnippet must fail: no such conversation, a
\* message_id supplied that no message has, a message of another conversation.
C4_Case(S, in) ==
    \/ in.conversation_id \notin DOMAIN S.conversations
    \/ /\ in.message_id \notin {UndefId, NullId}
       /\ \/ in.message_id \notin DOMAIN S.messages
          \/ S.messages[in.message_id].conversation_id # in.conversation_id

\* C4: in each of these cases createCodeSnippet throws and adds no snippet.
C4_CreateCodeSnippetFails ==
    [][(last'.op = "createCodeSnippet" /\ C4_Case(db, last'.in))
          => /\ ~last'.ok
             /\ db'.code_snippets = db.code_snippets]_vars

\* C5: deleteProject never throws; called by the owner of an existing project
\* it returns true and the row is gone; called again with arguments for which
\* it has returned true, it returns false.
C5_DeleteProjectTrueOnce ==
    [][last'.op = "deleteProject"
          => /\ last'.ok
             /\ last'.in \in deleted => last'.out = Returned(FALSE)
             /\ ( /\ last'.in.projectId \in DOMAIN db.projects
                  /\ db.projects[last'.in.projectId].user_id = last'.in.userId )
                => /\ last'.out = Returned(TRUE)
                   /\ last'.in.projectId \notin DOMAIN db'.projects]_vars

\* deleteProject has returned false for arguments for which it had returned
\* true, and the owner has created another project since.
C5_Witness ==
    /\ last.op = "deleteProject" /\ last.out = Returned(FALSE)
    /\ last.in \in deleted
    /\ \E p \in Rows(db.projects) : p.user_id = last.in.userId /\ p.id > last.in.projectId

\* C6: deleteProject on a project of another user returns false and leaves
\* the whole store as it was.
C6_DeleteProjectNonOwner ==
    [][( /\ last'.op = "deleteProject"
         /\ last'.in.projectId \in DOMAIN db.projects
         /\ db.projects[last'.in.projectId].user_id # last'.in.userId )
          => /\ last'.ok /\ last'.out = Returned(FALSE)
             /\ db' = db]_vars

\* deleteProject has returned false to an existing user who is not the owner
\* of the project, which has a conversation.
C6_Witness ==
    /\ last.op = "deleteProject" /\ last.out = Returned(FALSE)
    /\ last.in.userId \in DOMAIN db.users
    /\ last.in.projectId \in DOMAIN db.projects
    /\ db.projects[last.in.projectId].user_id # last.in.userId
    /\ \E c \in Rows(db.conversations) : c.project_id = last.in.projectId

\* C7: a deleteProject that returns true leaves no conversation of the
\* project, no message and no code snippet of such a conversation, and every
\* other row as it was.
C7_DeleteProjectCascades ==
    [][(last'.op = "deleteProject" /\ last'.ok /\ last'.out = Returned(TRUE))
          => LET p == last'.in.projectId
                 gone == {c \in DOMAIN db.conversations :
                             db.conversations[c].project_id = p}
                 goneM == {m \in DOMAIN db.messages :
                              db.messages[m].conversation_id \in gone}
                 goneS == {x \in DOMAIN db.code_snippets :
                              db.code_snippets[x].conversation_id \in gone}
             IN /\ \A c \in Rows(db'.conversations) : c.project_id # p
                /\ \A m \in Rows(db'.messages) : m.conversation_id \notin gone
                /\ \A x \in Rows(db'.code_snippets) : x.conversation_id \notin gone
                /\ db'.users = db.users
                /\ db'.projects = [i \in DOMAIN db.projects \ {p} |-> db.projects[i]]
                /\ db'.conversations =
                      [i \in DOMAIN db.conversations \ gone |-> db.conversations[i]]
                /\ db'.messages = [i \in DOMAIN db.messages \ goneM |-> db.messages[i]]
                /\ db'.code_snippets =
                      [i \in DOMAIN db.code_snippets \ goneS |-> db.code_snippets[i]]]_vars

\* deleteProject has returned true, the message and the snippet that were
\* created are gone, and another project keeps its conversation.
C7_Witness ==
    /\ last.op = "deleteProject" /\ last.out = Returned(TRUE)
    /\ db.seq.messages > 1 /\ DOMAIN db.messages = {}
    /\ db.seq.code_snippets > 1 /\ DOMAIN db.code_snippets = {}
    /\ \E c \in Rows(db.conversations) : c.project_id # last.in.projectId

\* The snippet exists and its conversation belongs to the user.
C8_Owned(S, snippetId, userId) ==
    /\ snippetId \in DOMAIN S.code_snippets
    /\ \E c \in Rows(S.conversations) :
          c.id = S.code_snippets[snippetId].conversation_id /\ c.user_id = userId

\* C8: deleteCodeSnippet never throws; it returns true exactly when the
\* snippet exists in a conversation of the user, and then removes that row
\* alone; otherwise it leaves the store as it was.
C8_DeleteCodeSnippet ==
    [][last'.op = "deleteCodeSnippet"
          => LET s == last'.in.snippetId
                 owned == C8_Owned(db, s, last'.in.userId)
             IN /\ last'.ok
                /\ last'.out = Returned(owned)
                /\ owned => db' = [db EXCEPT !.code_snippets = Without(@, {s})]
                /\ ~owned => db' = db]_vars

\* deleteCodeSnippet has returned true and the snippet's conversation and
\* message are still there.
C8_Witness ==
    /\ last.op = "deleteCodeSnippet" /\ last.out = Returned(TRUE)
    /\ last.in.snippetId \notin DOMAIN db.code_snippets
    /\ DOMAIN db.messages # {}
    /\ Cardinality(DOMAIN db.users) = 2

\* C9: an update of an existing row succeeds and returns the stored row; a
\* mutable field the input leaves out keeps its value, one the input supplies
\* (null included) takes the supplied value; with no mutable field supplied
\* nothing but updated_at changes.
C9_PartialUpdate ==
    [][(last'.op \in UpdateOps /\ last'.in.id \in DOMAIN TableOf(db, last'.op))
          => LET in == last'.in
                 old == TableOf(db, last'.op)[in.id]
                 new == TableOf(db', last'.op)[in.id]
                 F == MutableFields(last'.op)
             IN /\ last'.ok
                /\ last'.out = new
                /\ \A f \in F : new[f] = IF in[f] = UNDEF THEN old[f] ELSE in[f]
                /\ (\A f \in F : in[f] = UNDEF)
                      => \A f \in DOMAIN old \ {"updated_at"} : new[f] = old[f]]_vars

\* updateProject has set a described project's description to null, changed
\* its language and left its name alone.
C9_Witness ==
    /\ last.op = "updateProject" /\ last.ok
    /\ last.in.description = NULL /\ last.in.name = UNDEF
    /\ last.in.coding_language = "python"
    /\ db.projects[last.in.id].description = NULL
    /\ db.projects[last.in.id].name = "a"
    /\ db.projects[last.in.id].coding_language = "python"
    /\ \E s \in DOMAIN db.code_snippets : db.code_snippets[s].description = "d"

\* C10: a successful update leaves the row's updated_at strictly greater
\* than it was before the update.
C10_UpdatedAtStrictlyIncreases ==
    [][(last'.op \in UpdateOps /\ last'.ok)
          => TableOf(db', last'.op)[last'.in.id].updated_at
                > TableOf(db, last'.op)[last'.in.id].updated_at]_vars

\* The not-found message of each update route.
C11_NotFound(op) ==
    CASE op = "updateUser" -> "User with id not found"
      [] op = "updateProject" -> "Project with id not found"
      [] op = "updateConversation" -> "Conversation with id not found"
      [] op = "updateCodeSnippet" -> "Code snippet with id not found"

\* C11: an update whose id names no row fails with the not-found error of
\* its entity carrying that id, and the store is as it was.
C11_UpdateOfMissingRowFails ==
    [][(last'.op \in UpdateOps /\ last'.in.id \notin DOMAIN TableOf(db, last'.op))
          => /\ ~last'.ok
             /\ last'.err = Err(C11_NotFound(last'.op), last'.in.id, 0)
             /\ db' = db]_vars

\* updateCodeSnippet, with fields supplied, has failed on an id of no row
\* while another snippet is stored.
C11_Witness ==
    /\ last.op = "updateCodeSnippet" /\ ~last.ok
    /\ last.err.id = last.in.id
    /\ last.in.title # UNDEF /\ last.in.description = NULL
    /\ last.in.id \notin DOMAIN db.code_snippets
    /\ DOMAIN db.code_snippets # {}

\* C12: an update call changes no row's id, created_at or parent reference,
\* nor a user's email, auth_provider or auth_provider_id: every field that is
\* neither updated_at nor in the route's input stays as it was, and no row
\* appears or disappears.
C12_UpdateKeepsImmutableFields ==
    [][last'.op \in UpdateOps
          => /\ \A op \in UpdateOps :
                  /\ DOMAIN TableOf(db', op) = DOMAIN TableOf(db, op)
                  /\ \A i \in DOMAIN TableOf(db, op) :
                        \A f \in DOMAIN TableOf(db, op)[i]
                                  \ (MutableFields(op) \cup {"updated_at"}) :
                            TableOf(db', op)[i][f] = TableOf(db, op)[i][f]
             /\ db'.messages = db.messages
             /\ db'.seq = db.seq]_vars

\* updateProject has renamed a project after the clock moved on: updated_at
\* is the new reading, created_at and user_id are those of the insert.
C12_Witness ==
    /\ last.op = "updateProject" /\ last.ok /\ last.in.name = "b"
    /\ last.out.updated_at = 1 /\ last.out.created_at = 0
    /\ last.out.user_id = 1 /\ last.out.id = last.in.id
    /\ db.projects[last.in.id] = last.out

\* C13: no two users hold the same email; createUser with an email some
\* user already holds fails with the store's uniqueness error and adds no
\* row, whatever the rest of its input.
C13_EmailUnique ==
    [][/\ \A u, v \in Rows(db'.users) : u.email = v.email => u.id = v.id
       /\ (last'.op = "createUser"
             /\ \E u \in Rows(db.users) : u.email = last'.in.email)
          => /\ ~last'.ok
             /\ last'.err.msg = "duplicate key value violates unique constraint"
             /\ db'.users = db.users]_vars

\* createUser has been refused for an email held by a user of another
\* provider and another avatar.
C13_Witness ==
    /\ last.op = "createUser" /\ ~last.ok
    /\ \E u \in Rows(db.users) :
          /\ u.email = last.in.email
          /\ u.auth_provider # last.in.auth_provider
          /\ u.avatar_url # OrNull(last.in.avatar_url)

\* What a create call with an existing parent does to its table: one row
\* more, under a fresh id, equal to the entity returned.
C14_OneRowAdded(old, new, out) ==
    /\ out.id \notin DOMAIN old
    /\ DOMAIN new = DOMAIN old \cup {out.id}
    /\ new[out.id] = out
    /\ \A i \in DOMAIN old : new[i] = old[i]

\* C14: createProject fails when no user has its user_id and createMessage
\* when no conversation has its conversation_id, and then no row is added;
\* with the parent there, the call succeeds, adds exactly one row, and the
\* entity it returns is that row.
C14_CreateNeedsParent ==
    [][/\ last'.op = "createProject"
          => IF last'.in.user_id \notin DOMAIN db.users
             THEN ~last'.ok /\ db' = db
             ELSE /\ last'.ok
                  /\ C14_OneRowAdded(db.projects, db'.projects, last'.out)
                  /\ \A t \in {"users", "conversations", "messages", "code_snippets"} :
                        db'[t] = db[t]
       /\ last'.op = "createMessage"
          => IF last'.in.conversation_id \notin DOMAIN db.conversations
             THEN ~last'.ok /\ db' = db
             ELSE /\ last'.ok
                  /\ C14_OneRowAdded(db.messages, db'.messages, last'.out)
                  /\ \A t \in {"users", "projects", "conversations", "code_snippets"} :
                        db'[t] = db[t]]_vars

\* createMessage has stored the message it returned in the second of two
\* conversations.
C14_Witness ==
    /\ last.op = "createMessage" /\ last.ok
    /\ last.out.conversation_id = 2
    /\ Cardinality(DOMAIN db.conversations) = 2
    /\ db.messages[last.out.id] = last.out

\* The list routes of the two orders by updated_at.
C15_ByUpdatedAt == {"getUserProjects", "getProjectConversations"}

\* C15: getUserProjects and getProjectConversations return their rows with
\* updated_at non-increasing, getConversationMessages with created_at
\* non-decreasing, getConversationCodeSnippets with created_at
\* non-increasing.
C15_ListsAreSorted ==
    [][LET s == last'.out.rows
       IN /\ last'.op \in C15_ByUpdatedAt
             => \A i \in 1 .. Len(s) - 1 : s[i].updated_at >= s[i + 1].updated_at
          /\ last'.op = "getConversationMessages"
             => \A i \in 1 .. Len(s) - 1 : s[i].created_at <= s[i + 1].created_at
          /\ last'.op = "getConversationCodeSnippets"
             => \A i \in 1 .. Len(s) - 1 : s[i].created_at >= s[i + 1].created_at]_vars

\* getUserProjects has returned two projects, the older one first because
\* it was updated later.
C15_Witness ==
    /\ last.op = "getUserProjects"
    /\ Len(last.out.rows) = 2
    /\ last.out.rows[1].id < last.out.rows[2].id
    /\ last.out.rows[1].updated_at > last.out.rows[2].updated_at

\* The rows a list route is asked for: those of its table under the parent
\* of its input.
C16_Matching(S, op, in) ==
    CASE op = "getUserProjects" -> {p \in Rows(S.projects) : p.user_id = in.user_id}
      [] op = "getProjectConversations" ->
            {c \in Rows(S.conversations) : c.project_id = in.project_id}
      [] op = "getConversationMessages" ->
            {x \in Rows(S.messages) : x.conversation_id = in.conversation_id}
      [] op = "getConversationCodeSnippets" ->
            {x \in Rows(S.code_snippets) : x.conversation_id = in.conversation_id}

C16_Lists ==
    {"getUserProjects", "getProjectConversations", "getConversationMessages",
     "getConversationCodeSnippets"}

\* C16: a list call succeeds, leaves the store alone and returns, each once,
\* exactly the stored rows under the parent id of its input: the empty
\* sequence when there is none or no such parent.
C16_ListsReturnTheParentsRows ==
    [][last'.op \in C16_Lists
          => LET s == last'.out.rows
             IN /\ last'.ok
                /\ db' = db
                /\ {s[i] : i \in 1 .. Len(s)} = C16_Matching(db, last'.op, last'.in)
                /\ Len(s) = Cardinality(C16_Matching(db, last'.op, last'.in))]_vars

\* getUserProjects has returned the one project of a user while another
\* user's project is stored.
C16_Witness ==
    /\ last.op = "getUserProjects"
    /\ Len(last.out.rows) = 1
    /\ \E p \in Rows(db.projects) : p.user_id # last.in.user_id

\* C17: for an input naming a project of another user, createConversation
\* fails in the present store exactly as it fails, with the same error and
\* message, in the store without that project.
C17_OwnershipNotLeaked ==
    \A in \in CreateConversationInputs :
        ( /\ in.project_id \in DOMAIN db.projects
          /\ db.projects[in.project_id].user_id # in.user_id )
        => LET there == createConversation(db, in, now)
               gone == createConversation(DeleteProjects(db, {in.project_id}), in, now)
           IN /\ ~there.ok /\ ~gone.ok
              /\ there.err = gone.err
              /\ there.out = gone.out

\* createConversation has been refused to an existing user for a project
\* that exists and belongs to another user.
C17_Witness ==
    /\ last.op = "createConversation" /\ ~last.ok
    /\ last.in.user_id \in DOMAIN db.users
    /\ last.in.project_id \in DOMAIN db.projects
    /\ db.projects[last.in.project_id].user_id # last.in.user_id

\* The requests deleteProject(p, owner) for the stored project p of the
\* start and its owner, and those of them that have returned.
C18_Racing == {q \in Clients : calls[q].in = [projectId |-> 1, userId |-> 1]}

C18_Returned == {q \in C18_Racing : calls[q].pc = "returned"}

\* C18: of the concurrent deleteProject(p, owner) calls for one existing
\* project, in every interleaving, the first to run its statement returns
\* true and removes the project, and every other returns false: once any
\* has returned, exactly one has returned true.
C18_ExactlyOneDeleteWins ==
    C18_Returned # {}
       => /\ Cardinality({q \in C18_Returned : calls[q].res = Returned(TRUE)}) = 1
          /\ 1 \notin DOMAIN db.projects

\* All the clients have called deleteProject for the same project as its
\* owner and all have returned, one of them with true.
C18_Witness ==
    /\ C18_Returned = Clients
    /\ \E q \in Clients : calls[q].res = Returned(TRUE)
    /\ \E q \in Clients : calls[q].res = Returned(FALSE)

\* The users matching an auth input in both fields.
C19_Matches(S, in) ==
    {u \in Rows(S.users) : /\ u.auth_provider = in.auth_provider
                          /\ u.auth_provider_id = in.auth_provider_id}

\* C19: getUserById returns the user of that id and getUserByAuth a stored
\* user equal to the input in auth_provider and auth_provider_id; with no
\* such user each returns null; neither fails or changes the store.
C19_UserLookups ==
    [][/\ last'.op = "getUserById"
          => /\ last'.ok /\ db' = db
             /\ last'.out = IF last'.in.userId \in DOMAIN db.users
                            THEN db.users[last'.in.userId] ELSE NullResult
       /\ last'.op = "getUserByAuth"
          => /\ last'.ok /\ db' = db
             /\ IF C19_Matches(db, last'.in) = {}
                THEN last'.out = NullResult
                ELSE last'.out \in C19_Matches(db, last'.in)]_vars

\* getUserByAuth has returned the user of one provider while a user of the
\* other provider has the same auth_provider_id.
C19_Witness ==
    /\ last.op = "getUserByAuth" /\ last.out # NullResult
    /\ last.out \in Rows(db.users)
    /\ \E u \in Rows(db.users) :
          /\ u.auth_provider_id = last.in.auth_provider_id
          /\ u.auth_provider # last.in.auth_provider

\* C20: the entity a successful createUser returns has an id above 0 and
\* created_at equal to updated_at.
C20_CreateUserIdAndTimestamps ==
    [][(last'.op = "createUser" /\ last'.ok)
          => /\ last'.out.id > 0
             /\ last'.out.created_at = last'.out.updated_at
             /\ db'.users[last'.out.id] = last'.out]_vars

\* createUser has returned the second user, created after the clock moved.
C20_Witness ==
    /\ last.op = "createUser" /\ last.ok
    /\ last.out.id = 2
    /\ last.out.created_at = 1 /\ last.out.updated_at = 1
    /\ db.users[1].created_at = 0

\* C21: when createMessage with metadata omitted or null has just succeeded
\* on a conversation holding no other message, getConversationMessages of
\* that conversation returns one message: the id, role and content that
\* createMessage returned, and metadata null.
C21_CreateThenList ==
    [][( /\ last.op = "createMessage" /\ last.ok
         /\ last.in.metadata \in {UNDEF, NULL}
         /\ \A x \in Rows(db.messages) :
               x.conversation_id = last.in.conversation_id => x.id = last.out.id
         /\ last'.op = "getConversationMessages"
         /\ last'.in.conversation_id = last.in.conversation_id )
          => /\ last'.ok
             /\ Len(last'.out.rows) = 1
             /\ last'.out.rows[1].id = last.out.id
             /\ last'.out.rows[1].role = last.in.role
             /\ last'.out.rows[1].content = last.in.content
             /\ last'.out.rows[1].metadata = NULL]_vars

\* getConversationMessages has returned the one message, without metadata,
\* of a conversation created in a project created after the start.
C21_Witness ==
    /\ last.op = "getConversationMessages"
    /\ Len(last.out.rows) = 1
    /\ last.out.rows[1].metadata = NULL
    /\ last.in.conversation_id = 2
    /\ db.conversations[2].project_id = 2

\* C22: the removal of a message row removes no code snippet; a snippet that
\* referenced the message has message_id null afterwards and is otherwise
\* as before, and the other snippets are as before.
C22_MessageDeleteNullsReference ==
    [][last'.op = "delete from messages"
          => /\ last'.in.messageId \notin DOMAIN db'.messages
             /\ DOMAIN db'.code_snippets = DOMAIN db.code_snippets
             /\ \A s \in DOMAIN db.code_snippets :
                   db'.code_snippets[s] =
                       IF db.code_snippets[s].message_id = last'.in.messageId
                       THEN [db.code_snippets[s] EXCEPT !.message_id = NullId]
                       ELSE db.code_snippets[s]]_vars

\* A message that a code snippet referenced has been removed, and the
\* snippet is there with message_id null.
C22_Witness ==
    /\ last.op = "delete from messages"
    /\ last.out.referenced_by # {}
    /\ \A s \in last.out.referenced_by :
          /\ s \in DOMAIN db.code_snippets
          /\ db.code_snippets[s].message_id = NullId

\* C30: createProject and createCodeSnippet store the description of their
\* input as given, the empty string included, and null only when it is
\* omitted or null.
C30_DescriptionStoredAsGiven ==
    [][(last'.op \in {"createProject", "createCodeSnippet"} /\ last'.ok)
          => last'.out.description =
                IF last'.in.description \in {UNDEF, NULL} THEN NULL
                ELSE last'.in.description]_vars

\* The project above a conversation, a message or a code snippet.
C23_ProjectOfConversation(S, c) == S.conversations[c].project_id

C23_ProjectOfChild(S, row) == C23_ProjectOfConversation(S, row.conversation_id)

\* C23: no step removes a user; a project goes only in a deleteProject step
\* of that project that returns true; a conversation or a message only in a
\* deleteProject step of the project above it; a code snippet only so or in
\* a deleteCodeSnippet step of that snippet that returns true.
C23_RowsGoOnlyByDelete ==
    [][/\ DOMAIN db.users \subseteq DOMAIN db'.users
       /\ \A p \in DOMAIN db.projects \ DOMAIN db'.projects :
             /\ last'.op = "deleteProject" /\ last'.out = Returned(TRUE)
             /\ last'.in.projectId = p
       /\ \A c \in DOMAIN db.conversations \ DOMAIN db'.conversations :
             /\ last'.op = "deleteProject" /\ last'.out = Returned(TRUE)
             /\ last'.in.projectId = C23_ProjectOfConversation(db, c)
       /\ \A x \in DOMAIN db.messages \ DOMAIN db'.messages :
             /\ last'.op = "deleteProject" /\ last'.out = Returned(TRUE)
             /\ last'.in.projectId = C23_ProjectOfChild(db, db.messages[x])
       /\ \A s \in DOMAIN db.code_snippets \ DOMAIN db'.code_snippets :
             \/ /\ last'.op = "deleteCodeSnippet" /\ last'.out = Returned(TRUE)
                /\ last'.in.snippetId = s
             \/ /\ last'.op = "deleteProject" /\ last'.out = Returned(TRUE)
                /\ last'.in.projectId = C23_ProjectOfChild(db, db.code_snippets[s])]_vars

\* deleteProject has returned true and taken a conversation, a message and
\* a code snippet with the project, and both users are still there.
C23_Witness ==
    /\ last.op = "deleteProject" /\ last.out = Returned(TRUE)
    /\ Cardinality(DOMAIN db.users) = 2
    /\ db.seq.messages = 2 /\ DOMAIN db.messages = {}
    /\ db.seq.code_snippets = 2 /\ DOMAIN db.code_snippets = {}
    /\ db.seq.conversations = 2 /\ DOMAIN db.conversations = {}

C29_AuthPairUnique ==
    \A u, v \in Rows(db.users) :
        (u.auth_provider = v.auth_provider /\ u.auth_provider_id = v.auth_provider_id)
           => u.id = v.id


\* C25: every updateProject call that completes either failed with a not-found
\* error naming the id or returned the post-update row of the project with
\* that id; it never reports success without a row, also when a deleteProject
\* of the project runs between its lookup and its update statement.
C25_RowOrNotFound ==
    \A q \in Racers :
        /\ At(q, "updateProject.thrown") =>
              calls[q].res = Err("Project with id not found", calls[q].in.id, 0)
        /\ At(q, "updateProject.returned") =>
              /\ calls[q].res # Undefined
              /\ calls[q].res.id = calls[q].in.id

\* C26: in every state each project's user_id names a user, each
\* conversation's project_id and user_id name a project and a user, and each
\* message's and code snippet's conversation_id names a conversation; a create
\* whose parent a concurrent deleteProject removed between the parent check
\* and the insert adds no row.
C26_ReferentialIntegrity ==
    /\ \A p \in Rows(db.projects) : p.user_id \in DOMAIN db.users
    /\ \A c \in Rows(db.conversations) :
          c.project_id \in DOMAIN db.projects /\ c.user_id \in DOMAIN db.users
    /\ \A x \in Rows(db.messages) : x.conversation_id \in DOMAIN db.conversations
    /\ \A s \in Rows(db.code_snippets) : s.conversation_id \in DOMAIN db.conversations

C26_Witness ==
    \E q \in Racers :
        /\ At(q, "createMessage.thrown")
        /\ calls[q].res.msg = "violates foreign key constraint"
        /\ calls[q].in.conversation_id \notin DOMAIN db.conversations
        /\ db.messages = EmptyTable

C27_Stamped == {"users", "projects", "conversations", "code_snippets"}

\* C27: over every step, the updated_at of every row that stays in its table
\* does not decrease, also when two updates of the same row interleave.
C27_UpdatedAtNeverDecreases ==
    [][\A tb \in C27_Stamped : \A id \in DOMAIN db[tb] \cap DOMAIN db'[tb] :
          db'[tb][id].updated_at >= db[tb][id].updated_at]_vars

C28_ReturnedTrue(s) ==
    {q \in Racers : /\ calls[q].pc = "deleteCodeSnippet.returned"
                    /\ calls[q].in.snippetId = s
                    /\ calls[q].res = Returned(TRUE)}

\* C28: of the deleteCodeSnippet calls for one snippet running at once, also
\* next to a deleteProject of its project, at most one returns true, and the
\* delete statement of a call removes the snippet only for the user who owns
\* the snippet's conversation.
C28_OneDeleteByOwner ==
    [][/\ \A s \in IdInputs(MaxSnippets) : Cardinality(C28_ReturnedTrue(s)') <= 1
       /\ \A q \in Racers : \A s \in DOMAIN db.code_snippets :
             (/\ At(q, "deleteCodeSnippet.delete")
              /\ calls'[q].pc = "deleteCodeSnippet.returned"
              /\ calls[q].in.snippetId = s
              /\ s \notin DOMAIN db'.code_snippets)
             => /\ calls'[q].res = Returned(TRUE)
                /\ calls[q].in.userId =
                      db.conversations[db.code_snippets[s].conversation_id].user_id]_vars

C28_Witness ==
    /\ \E q \in Racers : q \in C28_ReturnedTrue(1)
    /\ \E q \in Racers : /\ At(q, "deleteCodeSnippet.returned")
                          /\ calls[q].in.userId = 1
                          /\ calls[q].res = Returned(FALSE)
    /\ \E q \in Racers : At(q, "returned") /\ calls[q].res = Returned(TRUE)
====
